---- MODULE Spec2Model ----
(***************************************************************************)
(* Model of printer.py: list_files_and_image_dimensions and the __main__   *)
(* entry point.                                                            *)
(*                                                                         *)
(* Text is a sequence of pieces.  Path strings, directory names and file   *)
(* names are spelled one character per piece, so that replace, count,      *)
(* join, basename, splitext and lower work on characters as the Python     *)
(* functions do.  The literal parts of the f-strings (" (Image, ", ...)    *)
(* are single pieces.                                                      *)
(*                                                                         *)
(* The file system is the environment: it is chosen in Init and never      *)
(* changes.  It has no symbolic links.  Writing to standard output never   *)
(* fails outside the try block of lines 23-29.                             *)
(***************************************************************************)
EXTENDS Integers, Sequences, FiniteSets, TLC

\* ------------------------------------------------------------------ bounds
MaxDirs == 2
MaxUnreadable == 1
MaxFiles == 2

\* --------------------------------------------------------- program constants
IndentWidth == 4

Sep == "/"

image_extensions ==
    { <<".", "j", "p", "g">>, <<".", "j", "p", "e", "g">>, <<".", "p", "n", "g">>,
      <<".", "g", "i", "f">>, <<".", "b", "m", "p">>, <<".", "t", "i", "f", "f">>,
      <<".", "w", "e", "b", "p">> }

ExcludedDirs ==
    { <<".", "n", "e", "x", "t">>,
      <<"n", "o", "d", "e", "_", "m", "o", "d", "u", "l", "e", "s">>,
      <<".", "g", "i", "t">>, <<".", "i", "d", "e", "a">> }

ErrorLine == <<"Error: The provided path is not a valid directory.">>

\* ------------------------------------------------------------ string helpers
UpperCase == <<"A","B","C","D","E","F","G","H","I","J","K","L","M",
               "N","O","P","Q","R","S","T","U","V","W","X","Y","Z">>
LowerCase == <<"a","b","c","d","e","f","g","h","i","j","k","l","m",
               "n","o","p","q","r","s","t","u","v","w","x","y","z">>

\* str.lower on one character
LowerChar(c) ==
    IF \E i \in 1..Len(UpperCase) : UpperCase[i] = c
    THEN LowerCase[CHOOSE i \in 1..Len(UpperCase) : UpperCase[i] = c]
    ELSE c

\* str.lower
Lower(s) == [i \in 1..Len(s) |-> LowerChar(s[i])]

\* s[i:] with a 1-based i
Drop(s, i) == SubSeq(s, i, Len(s))

\* s.startswith(p) at the 1-based position i
MatchAt(s, p, i) ==
    /\ i + Len(p) - 1 <= Len(s)
    /\ \A k \in 1..Len(p) : s[i + k - 1] = p[k]

\* str.replace(old, ''): every non-overlapping occurrence of old, found left
\* to right, is removed
RECURSIVE ReplaceFrom(_, _, _)
ReplaceFrom(s, old, i) ==
    IF i > Len(s) THEN <<>>
    ELSE IF MatchAt(s, old, i) THEN ReplaceFrom(s, old, i + Len(old))
    ELSE <<s[i]>> \o ReplaceFrom(s, old, i + 1)

Replace(s, old) == IF old = <<>> THEN s ELSE ReplaceFrom(s, old, 1)

\* str.count of a single character
Count(s, c) == Cardinality({i \in 1..Len(s) : s[i] = c})

\* str.rfind of a single character, 1-based, 0 when absent
RFind(s, c) ==
    IF \E i \in 1..Len(s) : s[i] = c
    THEN CHOOSE i \in 1..Len(s) : s[i] = c /\ \A j \in (i+1)..Len(s) : s[j] # c
    ELSE 0

\* os.path.join(a, b) of posixpath
Join(a, b) ==
    IF Len(b) > 0 /\ b[1] = Sep THEN b
    ELSE IF a = <<>> \/ a[Len(a)] = Sep THEN a \o b
    ELSE a \o <<Sep>> \o b

\* os.path.basename
Basename(p) == Drop(p, RFind(p, Sep) + 1)

\* os.path.splitext(p)[1]: the text from the last dot on, unless that dot is
\* before the last separator or only dots lie between the separator and it
SplitextExt(p) ==
    LET sepIndex == RFind(p, Sep)
        dotIndex == RFind(p, ".")
    IN  IF /\ dotIndex > sepIndex
           /\ \E k \in (sepIndex + 1)..(dotIndex - 1) : p[k] # "."
        THEN Drop(p, dotIndex)
        ELSE <<>>

\* ' ' * n
RECURSIVE Spaces(_)
Spaces(n) == IF n <= 0 THEN <<>> ELSE <<" ">> \o Spaces(n - 1)

\* str(n) of a natural number
DigitChars == <<"0","1","2","3","4","5","6","7","8","9">>
RECURSIVE Str(_)
Str(n) == IF n < 10 THEN <<DigitChars[n + 1]>>
          ELSE Str(n \div 10) \o <<DigitChars[(n % 10) + 1]>>

\* reversed(list)
Reverse(s) == [i \in 1..Len(s) |-> s[Len(s) + 1 - i]]

\* ------------------------------------------------- the program's functions
\* line 13 left out: every subdirectory is descended into
PruneNothing(ds) == ds

\* line 13: [d for d in dirs if d not in {'.next', 'node_modules', '.git', '.idea'}]
RECURSIVE Prune(_)
Prune(ds) ==
    IF ds = <<>> THEN <<>>
    ELSE (IF Head(ds) \notin ExcludedDirs THEN <<Head(ds)>> ELSE <<>>) \o Prune(Tail(ds))

\* line 15: root.replace(directory_path, '').count(os.sep)
Level(root_path, directory_path) == Count(Replace(root_path, directory_path), Sep)

\* lines 16 and 19: ' ' * 4 * level
Indent(lvl) == Spaces(IndentWidth * lvl)

\* line 17: f'{indent}{os.path.basename(root)}/'
DirLine(lvl, root_path) == Indent(lvl) \o Basename(root_path) \o <<"/">>

\* lines 21-22 without .lower()
IsImageCaseSensitive(f) == SplitextExt(f) \in image_extensions

\* lines 21-22 as f.lower().endswith(extension)
IsImageEndsWith(f) ==
    \E e \in image_extensions :
        Len(f) >= Len(e) /\ Lower(Drop(f, Len(f) - Len(e) + 1)) = e

\* lines 21-22: os.path.splitext(f)[1].lower() in image_extensions
IsImage(f) == Lower(SplitextExt(f)) \in image_extensions

\* line 27: f'{sub_indent}{f} (Image, {width}x{height})'
ImageLine(sub_indent, f, width, height) ==
    sub_indent \o f \o <<" (Image, ">> \o Str(width) \o <<"x">> \o Str(height) \o <<")">>

\* line 29: f'{sub_indent}{f} (Could not read image dimensions: {e})'
FailLine(sub_indent, f, e) ==
    sub_indent \o f \o <<" (Could not read image dimensions: ">> \o e \o <<")">>

\* line 31: f'{sub_indent}{f}'
PlainLine(sub_indent, f) == sub_indent \o f

\* ---------------------------------------------------------------- the state
VARIABLES
    folder_path,  \* the root path string (line 34)
    isdir,        \* os.path.isdir(folder_path)
    fs,           \* the directory tree: node -> [dirs, files, readable]
    run,          \* 1 for the first run of the program, 2 for the second
    pc,           \* position of the program
    stack,        \* os.walk's stack of directories still to visit
    scanned,      \* the directories os.walk has tried to list, in order
    root,         \* the directory yielded by os.walk: [path, node]
    dirs,         \* its list of subdirectories, pruned by line 13
    files,        \* its list of files
    level,        \* line 15
    fi,           \* position of the loop of line 20 in files
    handles,      \* the image files that are open
    opened,       \* the files Image.open was called on in this run
    size,         \* (width, height) of line 26
    exc,          \* the exception in flight out of the with block, or NoExc
    output,       \* the lines printed by this run
    prevOutput    \* the lines printed by the first run

vars == <<folder_path, isdir, fs, run, pc, stack, scanned, root, dirs, files,
          level, fi, handles, opened, size, exc, output, prevOutput>>

env == <<folder_path, isdir, fs>>

NoExc == <<"no exception">>
NoRoot == [path |-> <<>>, node |-> <<>>]

\* one printed line: its text, and which entry of the tree it is about
DirEntry(text, node) == [text |-> text, kind |-> "dir", node |-> node, idx |-> 0]
FileEntry(text, node, i) == [text |-> text, kind |-> "file", node |-> node, idx |-> i]
ErrorEntry == [text |-> ErrorLine, kind |-> "error", node |-> <<>>, idx |-> 0]

\* line 19
sub_indent == Indent(level + 1)

\* line 20 as a loop over set(files): the order changes from run to run
FilesOfUnordered(node) == IF run = 2 THEN Reverse(fs[node].files) ELSE fs[node].files

\* line 20: for f in files
FilesOf(node) == fs[node].files

\* the file of the current iteration of line 20
CurFile == files[fi]
CurId == <<root.node, fi>>

\* ------------------------------------------------------------------ actions
\* lines 33-39 without the check of line 36
MainUnchecked ==
    /\ pc = "main"
    /\ stack' = <<[path |-> folder_path, node |-> <<>>]>>
    /\ pc' = "walk"
    /\ UNCHANGED <<env, run, scanned, root, dirs, files, level, fi, handles,
                   opened, size, exc, output, prevOutput>>

\* lines 33-39
Main ==
    /\ pc = "main"
    /\ IF isdir
       THEN /\ stack' = <<[path |-> folder_path, node |-> <<>>]>>
            /\ pc' = "walk"
            /\ output' = output
       ELSE /\ output' = Append(output, ErrorEntry)
            /\ pc' = "done"
            /\ stack' = stack
    /\ UNCHANGED <<env, run, scanned, root, dirs, files, level, fi, handles,
                   opened, size, exc, prevOutput>>

\* line 11, os.walk: the directory on top of the stack cannot be listed; the
\* error is ignored (onerror is None) and the directory is not yielded
WalkSkip ==
    /\ pc = "walk"
    /\ stack # <<>>
    /\ LET top == stack[Len(stack)]
       IN  /\ ~fs[top.node].readable
           /\ stack' = SubSeq(stack, 1, Len(stack) - 1)
           /\ scanned' = Append(scanned, top.node)
    /\ UNCHANGED <<env, run, pc, root, dirs, files, level, fi, handles, opened,
                   size, exc, output, prevOutput>>

\* lines 11-19 with the directory lines collected at the head of the output
WalkYieldHeadersFirst ==
    /\ pc = "walk"
    /\ stack # <<>>
    /\ LET top == stack[Len(stack)]
           lvl == Level(top.path, folder_path)
       IN  /\ fs[top.node].readable
           /\ stack' = SubSeq(stack, 1, Len(stack) - 1)
           /\ scanned' = Append(scanned, top.node)
           /\ root' = top
           /\ dirs' = Prune(fs[top.node].dirs)
           /\ files' = FilesOf(top.node)
           /\ level' = lvl
           /\ output' = <<DirEntry(DirLine(lvl, top.path), top.node)>> \o output
           /\ fi' = 1
           /\ pc' = "files"
    /\ UNCHANGED <<env, run, handles, opened, size, exc, prevOutput>>

\* lines 11-19: os.walk yields the directory on top of the stack; its
\* subdirectory list is pruned and its line is printed
WalkYield ==
    /\ pc = "walk"
    /\ stack # <<>>
    /\ LET top == stack[Len(stack)]
           lvl == Level(top.path, folder_path)
       IN  /\ fs[top.node].readable
           /\ stack' = SubSeq(stack, 1, Len(stack) - 1)
           /\ scanned' = Append(scanned, top.node)
           /\ root' = top
           /\ dirs' = Prune(fs[top.node].dirs)
           /\ files' = FilesOf(top.node)
           /\ level' = lvl
           /\ output' = Append(output, DirEntry(DirLine(lvl, top.path), top.node))
           /\ fi' = 1
           /\ pc' = "files"
    /\ UNCHANGED <<env, run, handles, opened, size, exc, prevOutput>>

\* lines 20-22 and 30-31: the next file; one that is not an image is printed
NextFile ==
    /\ pc = "files"
    /\ fi <= Len(files)
    /\ IF IsImage(CurFile.name)
       THEN /\ pc' = "open"
            /\ UNCHANGED <<fi, output>>
       ELSE /\ output' = Append(output,
                  FileEntry(PlainLine(sub_indent, CurFile.name), root.node, fi))
            /\ fi' = fi + 1
            /\ pc' = pc
    /\ UNCHANGED <<env, run, stack, scanned, root, dirs, files, level, handles,
                   opened, size, exc, prevOutput>>

\* lines 24-25: Image.open(os.path.join(root, f)) returns an open image or raises
ImageOpen ==
    /\ pc = "open"
    /\ opened' = opened \cup {CurId}
    /\ IF CurFile.data.kind = "open_raises"
       THEN /\ exc' = CurFile.data.msg
            /\ pc' = "except"
            /\ handles' = handles
       ELSE /\ handles' = handles \cup {CurId}
            /\ pc' = "size"
            /\ exc' = exc
    /\ UNCHANGED <<env, run, stack, scanned, root, dirs, files, level, fi, size,
                   output, prevOutput>>

\* line 26: width, height = img.size
ReadSize ==
    /\ pc = "size"
    /\ IF CurFile.data.kind = "size_raises"
       THEN /\ exc' = CurFile.data.msg
            /\ pc' = "exit"
            /\ size' = size
       ELSE /\ size' = <<CurFile.data.w, CurFile.data.h>>
            /\ pc' = "print"
            /\ exc' = exc
    /\ UNCHANGED <<env, run, stack, scanned, root, dirs, files, level, fi,
                   handles, opened, output, prevOutput>>

\* line 27: the print inside the with block
PrintImage ==
    /\ pc = "print"
    /\ IF CurFile.data.kind = "print_raises"
       THEN /\ exc' = CurFile.data.msg
            /\ output' = output
       ELSE /\ output' = Append(output,
                  FileEntry(ImageLine(sub_indent, CurFile.name, size[1], size[2]),
                            root.node, fi))
            /\ exc' = exc
    /\ pc' = "exit"
    /\ UNCHANGED <<env, run, stack, scanned, root, dirs, files, level, fi,
                   handles, opened, size, prevOutput>>

\* line 25 without the with statement: the image is closed only when no
\* exception is in flight
WithExitLeaks ==
    /\ pc = "exit"
    /\ handles' = IF exc # NoExc THEN handles ELSE handles \ {CurId}
    /\ IF exc # NoExc
       THEN /\ pc' = "except"
            /\ fi' = fi
       ELSE /\ pc' = "files"
            /\ fi' = fi + 1
    /\ UNCHANGED <<env, run, stack, scanned, root, dirs, files, level, opened,
                   size, exc, output, prevOutput>>

\* line 25: leaving the with block closes the image, with or without an
\* exception in flight
WithExit ==
    /\ pc = "exit"
    /\ handles' = handles \ {CurId}
    /\ IF exc # NoExc
       THEN /\ pc' = "except"
            /\ fi' = fi
       ELSE /\ pc' = "files"
            /\ fi' = fi + 1
    /\ UNCHANGED <<env, run, stack, scanned, root, dirs, files, level, opened,
                   size, exc, output, prevOutput>>

\* lines 28-29 with the exception raised again after the print: the function
\* is left
ExceptAborts ==
    /\ pc = "except"
    /\ output' = Append(output, FileEntry(FailLine(sub_indent, CurFile.name, exc),
                                          root.node, fi))
    /\ exc' = NoExc
    /\ pc' = "done"
    /\ UNCHANGED <<env, run, stack, scanned, root, dirs, files, level, fi, handles,
                   opened, size, prevOutput>>

\* lines 28-29 as a retry of the same file
ExceptRetries ==
    /\ pc = "except"
    /\ exc' = NoExc
    /\ pc' = "open"
    /\ UNCHANGED <<env, run, stack, scanned, root, dirs, files, level, fi, handles,
                   opened, size, output, prevOutput>>

\* lines 28-29: except Exception as e
Except ==
    /\ pc = "except"
    /\ output' = Append(output, FileEntry(FailLine(sub_indent, CurFile.name, exc),
                                          root.node, fi))
    /\ exc' = NoExc
    /\ fi' = fi + 1
    /\ pc' = "files"
    /\ UNCHANGED <<env, run, stack, scanned, root, dirs, files, level, handles,
                   opened, size, prevOutput>>

\* line 11, os.walk resumed after the loop of line 20: the directories left
\* in dirs are pushed, the first one on top
RECURSIVE Children(_, _)
Children(top, ds) ==
    IF ds = <<>> THEN <<>>
    ELSE <<[path |-> Join(top.path, Head(ds)), node |-> Append(top.node, Head(ds))]>>
         \o Children(top, Tail(ds))

LoopEnd ==
    /\ pc = "files"
    /\ fi > Len(files)
    /\ stack' = stack \o Reverse(Children(root, dirs))
    /\ pc' = "walk"
    /\ UNCHANGED <<env, run, scanned, root, dirs, files, level, fi, handles,
                   opened, size, exc, output, prevOutput>>

\* line 11: os.walk is exhausted and the function returns
WalkEnd ==
    /\ pc = "walk"
    /\ stack = <<>>
    /\ pc' = "done"
    /\ UNCHANGED <<env, run, stack, scanned, root, dirs, files, level, fi,
                   handles, opened, size, exc, output, prevOutput>>

\* the program is run a second time on the unchanged tree
Rerun ==
    /\ pc = "done"
    /\ run = 1
    /\ run' = 2
    /\ prevOutput' = output
    /\ pc' = "main"
    /\ stack' = <<>>
    /\ scanned' = <<>>
    /\ root' = NoRoot
    /\ dirs' = <<>>
    /\ files' = <<>>
    /\ level' = 0
    /\ fi' = 1
    /\ handles' = {}
    /\ opened' = {}
    /\ size' = <<0, 0>>
    /\ exc' = NoExc
    /\ output' = <<>>
    /\ UNCHANGED env

\* ------------------------------------------------- the trees Init draws from
N_d == <<"d">>
N_rd == <<"r", "d">>
N_git == <<".", "g", "i", "t">>
N_Git == <<".", "G", "i", "t">>
N_next == <<".", "n", "e", "x", "t">>

F_txt == <<"c", ".", "t", "x", "t">>
F_png == <<"a", ".", "p", "n", "g">>
F_JPG == <<"b", ".", "J", "P", "G">>
F_Webp == <<"f", ".", "W", "e", "b", "p">>
F_dotgif == <<".", "g", "i", "f">>
F_noext == <<"e">>

P_abs == <<"/", "r">>
P_slash == <<"/", "r", "/">>
P_rel == <<"r">>
P_git == <<"/", ".", "g", "i", "t">>

WalkDirNames == {N_d, N_git, N_Git, N_next}
IndentDirNames == {N_d, N_rd}
RootPaths == {P_abs, P_slash, P_rel, P_git}

\* what a file holds, as the image library sees it
Valid(w, h) == [kind |-> "valid", w |-> w, h |-> h, msg |-> <<>>]
Raises(k, m) == [kind |-> k, w |-> 0, h |-> 0, msg |-> <<m>>]
Contents ==
    { Valid(10, 20), Valid(640, 5),
      Raises("open_raises", "cannot identify image file"),
      Raises("size_raises", "size unavailable"),
      Raises("print_raises", "unsupported format string") }

File(n, d) == [name |-> n, data |-> d]
PlainFile == File(F_txt, Valid(10, 20))

\* the sets of at most k directories below the root, each with its parent
RECURSIVE TreesUpTo(_, _)
TreesUpTo(k, names) ==
    IF k = 0 THEN {{}}
    ELSE LET prev == TreesUpTo(k - 1, names)
         IN  prev \cup UNION { { t \cup {Append(p, n)} : p \in t \cup {<<>>}, n \in names }
                               : t \in prev }

ChildNames(t, p) == {n \in UNION {{q[i] : i \in 1..Len(q)} : q \in t} : Append(p, n) \in t}

\* the orders in which a set can be enumerated
RECURSIVE Perms(_)
Perms(S) ==
    IF S = {} THEN {<<>>}
    ELSE UNION { { <<x>> \o q : q \in Perms(S \ {x}) } : x \in S }

\* the files Init draws from: an image name with anything in it, another
\* name with an image or with something that is no image in it
ProbeFiles ==
    { File(n, c) : n \in {F_png, F_JPG, F_Webp}, c \in Contents }
    \cup { File(n, c) : n \in {F_txt, F_dotgif, F_noext},
                        c \in {Valid(10, 20), Raises("open_raises", "cannot identify image file")} }

\* the lists of at most k of these files
RECURSIVE FileLists(_, _)
FileLists(k, fls) ==
    IF k = 0 THEN {<<>>}
    ELSE LET prev == FileLists(k - 1, fls)
         IN  prev \cup { Append(l, f) : l \in prev, f \in fls }

DistinctNames(l) == \A i, j \in 1..Len(l) : i # j => l[i].name # l[j].name

\* the file systems over the tree t, the files of each directory drawn from fls
RECURSIVE FsOver(_, _, _)
FsOver(nodes, t, fls) ==
    IF nodes = {} THEN {<<>>}
    ELSE LET n == CHOOSE x \in nodes : TRUE
         IN  { (n :> [dirs |-> d, files |-> fl, readable |-> r]) @@ g :
                   g \in FsOver(nodes \ {n}, t, fls),
                   d \in Perms(ChildNames(t, n)), fl \in fls, r \in BOOLEAN }

Unreadable(f) == {n \in DOMAIN f : ~f[n].readable}

FileSystems(names, fls, maxUnreadable) ==
    UNION { { f \in FsOver(t \cup {<<>>}, t, fls) : Cardinality(Unreadable(f)) <= maxUnreadable }
            : t \in TreesUpTo(MaxDirs, names) }

\* trees of every shape, an excluded name anywhere, an unreadable directory
WalkInputs ==
    { [path |-> P_abs, isdir |-> TRUE, fs |-> f] :
        f \in FileSystems(WalkDirNames, {<<PlainFile>>}, MaxUnreadable) }

\* every root path string over trees of every shape
IndentInputs ==
    { [path |-> p, isdir |-> TRUE, fs |-> f] :
        p \in RootPaths, f \in FileSystems(IndentDirNames, {<<PlainFile>>}, 0) }

\* every list of files in the root, followed by one subdirectory
ProbeInputs ==
    { [path |-> P_abs, isdir |-> TRUE,
       fs |-> (<<>> :> [dirs |-> <<N_d>>, files |-> fl, readable |-> TRUE])
              @@ (<<N_d>> :> [dirs |-> <<>>, files |-> <<PlainFile>>, readable |-> TRUE])] :
        fl \in {l \in FileLists(MaxFiles, ProbeFiles) : DistinctNames(l)} }

\* a root path that names no directory: nothing can be listed under it
InvalidInputs ==
    { [path |-> p, isdir |-> FALSE,
       fs |-> (<<>> :> [dirs |-> <<>>, files |-> <<>>, readable |-> FALSE])] :
        p \in RootPaths }

Inputs == WalkInputs \cup IndentInputs \cup ProbeInputs \cup InvalidInputs

Init ==
    /\ \E in \in Inputs :
          /\ folder_path = in.path
          /\ isdir = in.isdir
          /\ fs = in.fs
    /\ run = 1
    /\ pc = "main"
    /\ stack = <<>>
    /\ scanned = <<>>
    /\ root = NoRoot
    /\ dirs = <<>>
    /\ files = <<>>
    /\ level = 0
    /\ fi = 1
    /\ handles = {}
    /\ opened = {}
    /\ size = <<0, 0>>
    /\ exc = NoExc
    /\ output = <<>>
    /\ prevOutput = <<>>

Next ==
    \/ Main
    \/ WalkSkip
    \/ WalkYield
    \/ NextFile
    \/ ImageOpen
    \/ ReadSize
    \/ PrintImage
    \/ WithExit
    \/ Except
    \/ LoopEnd
    \/ WalkEnd
    \/ Rerun

Spec == Init /\ [][Next]_vars

\* every step of the program is eventually taken: it is sequential code
FairSpec == Spec /\ WF_vars(Next)

\* ------------------------------------------------ vocabulary of the claims
Texts(out) == [i \in 1..Len(out) |-> out[i].text]

DirLines(n) == {i \in 1..Len(output) : output[i].kind = "dir" /\ output[i].node = n}
FileLines(n, k) ==
    {i \in 1..Len(output) : output[i].kind = "file" /\ output[i].node = n /\ output[i].idx = k}

\* the number of spaces a line starts with
LeadingSpaces(text) ==
    CHOOSE k \in 0..Len(text) :
        /\ \A j \in 1..k : text[j] = " "
        /\ k < Len(text) => text[k + 1] # " "

\* the indentation of the line printed for directory n
DirIndent(n) == LeadingSpaces(output[CHOOSE i \in DirLines(n) : TRUE].text)

Prefix(n, k) == SubSeq(n, 1, k)

\* the basename of a directory of the tree
NodeName(n) == IF n = <<>> THEN Basename(folder_path) ELSE n[Len(n)]

\* n or a directory above it, the root included, has an excluded name
UnderExcludedName(n) == \E k \in 0..Len(n) : NodeName(Prefix(n, k)) \in ExcludedDirs

\* n or a directory above it, the root not included, has an excluded name
UnderExcludedBelowRoot(n) == \E k \in 1..Len(n) : n[k] \in ExcludedDirs

AllReadable == \A n \in DOMAIN fs : fs[n].readable

\* the name ends, whatever the case of its letters, in an image extension
\* that follows a stem which is not made of dots only
NameIsImage(name) ==
    \E e \in image_extensions :
        /\ Len(name) > Len(e)
        /\ Lower(Drop(name, Len(name) - Len(e) + 1)) = e
        /\ \E k \in 1..(Len(name) - Len(e)) : name[k] # "."

FileAt(n, k) == fs[n].files[k]
FileIds == UNION { { <<n, k>> : k \in 1..Len(fs[n].files) } : n \in DOMAIN fs }

Listed(n) ==
    /\ Cardinality(DirLines(n)) = 1
    /\ \A k \in 1..Len(fs[n].files) : Cardinality(FileLines(n, k)) = 1

Absent(n) ==
    /\ \A i \in 1..Len(output) : output[i].kind = "error" \/ output[i].node # n
    /\ \A i \in 1..Len(scanned) : scanned[i] # n

Finished == pc = "done" /\ isdir

C2_Indentation ==
    \A i \in 1..Len(output) :
        /\ output[i].kind = "dir" =>
              LeadingSpaces(output[i].text) = 4 * Len(output[i].node)
        /\ output[i].kind = "file" =>
              LeadingSpaces(output[i].text) = 4 * (Len(output[i].node) + 1)

\* --------------------------------------------------------------------- C3
FailingImage(f) == NameIsImage(f.name) /\ f.data.kind # "valid"

\* C3: a file with an image extension whose probe fails is printed as
\* '<indent><name> (Could not read image dimensions: <reason>)', and once the
\* traversal has finished every file after it in its directory and every
\* readable, non-excluded subdirectory of its directory has its line, after
\* the line of the failing file.
C3_FailureIsLocal ==
    \A id \in FileIds :
        LET n == id[1]
            k == id[2]
            f == FileAt(n, k)
        IN  FailingImage(f) =>
              /\ \A i \in FileLines(n, k) :
                    output[i].text =
                        Spaces(DirIndent(n) + 4) \o f.name
                        \o <<" (Could not read image dimensions: ">> \o f.data.msg \o <<")">>
              /\ (Finished /\ DirLines(n) # {}) =>
                    /\ Cardinality(FileLines(n, k)) = 1
                    /\ \A i \in FileLines(n, k) :
                          /\ \A k2 \in (k + 1)..Len(fs[n].files) :
                                \E j \in FileLines(n, k2) : j > i
                          /\ \A q \in 1..Len(fs[n].dirs) :
                                LET c == Append(n, fs[n].dirs[q])
                                IN  (fs[n].dirs[q] \notin ExcludedDirs /\ fs[c].readable)
                                    => \E j \in DirLines(c) : j > i

C3_Witness ==
    /\ Finished
    /\ \E id \in FileIds :
          /\ FailingImage(FileAt(id[1], id[2]))
          /\ FileLines(id[1], id[2]) # {}
          /\ id[2] < Len(fs[id[1]].files)
          /\ fs[id[1]].dirs # <<>>

\* --------------------------------------------------------------------- C4
\* C4: when the root path names no directory the whole output is the one
\* error line, no directory is listed and no file is opened; when it names a
\* directory the error line is never printed.
C4_InvalidRoot ==
    /\ ~isdir =>
          /\ pc \in {"main", "done"}
          /\ scanned = <<>> /\ stack = <<>>
          /\ opened = {} /\ handles = {}
          /\ pc = "main" => output = <<>>
          /\ pc = "done" => Texts(output) = <<ErrorLine>>
    /\ isdir => \A i \in 1..Len(output) : output[i].text # ErrorLine

C4_Witness == ~isdir /\ pc = "done" /\ Len(output) = 1

\* --------------------------------------------------------------------- C5
\* C5: a file whose extension is, in any case of its letters, an image
\* extension and whose probe gives (W, H) is printed as
\* '<indent><name> (Image, <W>x<H>)', and it is printed once its directory
\* has been listed.
C5_ImageLine ==
    \A id \in FileIds :
        LET n == id[1]
            k == id[2]
            f == FileAt(n, k)
        IN  (NameIsImage(f.name) /\ f.data.kind = "valid") =>
              /\ \A i \in FileLines(n, k) :
                    output[i].text =
                        Spaces(DirIndent(n) + 4) \o f.name \o <<" (Image, ">>
                        \o Str(f.data.w) \o <<"x">> \o Str(f.data.h) \o <<")">>
              /\ (Finished /\ DirLines(n) # {}) => Cardinality(FileLines(n, k)) = 1

C5_Witness ==
    /\ Finished
    /\ \E id \in FileIds :
          /\ FileAt(id[1], id[2]).name = F_JPG
          /\ FileAt(id[1], id[2]).data = Valid(10, 20)
          /\ FileLines(id[1], id[2]) # {}

\* --------------------------------------------------------------------- C6
\* C6: a file whose extension is not an image extension is printed as
\* '<indent><name>' whatever it holds, and it is never opened.
C6_PlainLine ==
    \A id \in FileIds :
        LET n == id[1]
            k == id[2]
            f == FileAt(n, k)
        IN  ~NameIsImage(f.name) =>
              /\ id \notin opened
              /\ id \notin handles
              /\ \A i \in FileLines(n, k) :
                    output[i].text = Spaces(DirIndent(n) + 4) \o f.name
              /\ (Finished /\ DirLines(n) # {}) => Cardinality(FileLines(n, k)) = 1

C6_Witness ==
    /\ Finished
    /\ \E id \in FileIds :
          /\ FileAt(id[1], id[2]).name = F_dotgif
          /\ FileAt(id[1], id[2]).data.kind = "open_raises"
          /\ FileLines(id[1], id[2]) # {}
    /\ \E id \in FileIds :
          /\ FileAt(id[1], id[2]).name = F_noext
          /\ FileAt(id[1], id[2]).data.kind = "valid"
          /\ FileLines(id[1], id[2]) # {}

C8_TopDown ==
    /\ (isdir /\ output # <<>>) => (output[1].kind = "dir" /\ output[1].node = <<>>)
    /\ \A j \in 1..Len(output) :
          /\ output[j].kind = "file" =>
                \A k \in 0..Len(output[j].node) :
                    \E i \in DirLines(Prefix(output[j].node, k)) : i < j
          /\ output[j].kind = "dir" =>
                \A k \in 0..(Len(output[j].node) - 1) :
                    \E i \in DirLines(Prefix(output[j].node, k)) : i < j

C8_Witness ==
    /\ Finished
    /\ \E j \in 1..Len(output) : output[j].kind = "file" /\ Len(output[j].node) = 2

\* --------------------------------------------------------------------- C9
\* C9: at most one image is open at any point, none is open outside the with
\* block (when the next file or directory is processed, in the except
\* handler, when the traversal has ended), whether the block was left
\* normally or by an exception.
C9_HandleReleased ==
    /\ Cardinality(handles) <= 1
    /\ pc \in {"main", "walk", "files", "open", "except", "done"} => handles = {}
    /\ pc \in {"size", "print", "exit"} => handles \subseteq {CurId}

C9_Witness == pc = "exit" /\ exc # NoExc /\ handles = {CurId} /\ fi < Len(files)

\* -------------------------------------------------------------------- C10
Visited(n) ==
    /\ \E i \in 1..Len(scanned) : scanned[i] = n
    /\ DirLines(n) # {}
    /\ \A k \in 1..Len(fs[n].files) : FileLines(n, k) # {}

\* C10: on a tree whose directories are all readable the traversal
\* eventually finishes, and when it has finished every directory that is not
\* excluded and every file in it has been visited.
C10_Terminates ==
    /\ (pc = "main" /\ isdir /\ AllReadable) ~> (pc = "done")
    /\ [](( Finished /\ AllReadable) =>
            \A n \in DOMAIN fs : ~UnderExcludedBelowRoot(n) => Visited(n))

C10_Witness ==
    /\ Finished /\ AllReadable
    /\ \E k1, k2 \in 1..Len(fs[<<>>].files) :
          /\ FailingImage(FileAt(<<>>, k1))
          /\ NameIsImage(FileAt(<<>>, k2).name) /\ FileAt(<<>>, k2).data.kind = "valid"

TypeOK ==
    /\ pc \in {"main", "walk", "files", "open", "size", "print", "exit", "except", "done"}
    /\ run \in {1, 2}
    /\ isdir \in BOOLEAN

====
